---------------------------- MODULE Spec2Model ----------------------------
(***************************************************************************)
(* State-machine model of src/split_window_lst.py: the module-level helper *)
(* check_t1x_range and the class SplitWindowLST (construction, which       *)
(* resolves a column-water-vapour subrange by random.choice among the      *)
(* matching table entries, and compute_lst, which evaluates the            *)
(* split-window equation and caches the result in self.lst).               *)
(*                                                                         *)
(* Numbers.  Python floats are modelled by exact rationals <<n, d>> in     *)
(* lowest terms with d > 0; "/" is true division.  An instance is modelled *)
(* as its attribute dictionary: a function whose DOMAIN is the set of      *)
(* attributes assigned so far.  A formatted string is modelled as the      *)
(* sequence of its literal pieces and substituted values.  The             *)
(* emissivities, coefficients and temperatures enumerated below are        *)
(* dyadic, so that on them float arithmetic is exact and agrees with the   *)
(* rationals.                                                              *)
(***************************************************************************)
EXTENDS Integers, Sequences, FiniteSets, TLC

VARIABLES
    COLUMN_WATER_VAPOUR,  \* the module-level coefficient table (read-only)
    self,                 \* the estimator's attribute dictionary
    phase,                \* "none" | "ready" | "failed" (construction raised)
    last,                 \* the last completed call: op, args, outcome
    memo,                 \* the first compute_lst call that returned, and
                          \* whether a call with other arguments returned since
    threads               \* per thread: position inside compute_lst, locals

vars == <<COLUMN_WATER_VAPOUR, self, phase, last, memo, threads>>

-----------------------------------------------------------------------------
(* Rational arithmetic standing for Python's float arithmetic *)

Abs(x) == IF x < 0 THEN -x ELSE x

RECURSIVE GCD(_, _)
GCD(a, b) == IF b = 0 THEN a ELSE GCD(b, a % b)

R(n, d) ==
    LET g == GCD(Abs(n), Abs(d))
        s == IF d < 0 THEN -1 ELSE 1
    IN  <<(s * n) \div g, (s * d) \div g>>

RAdd(x, y) == R(x[1] * y[2] + y[1] * x[2], x[2] * y[2])
RSub(x, y) == R(x[1] * y[2] - y[1] * x[2], x[2] * y[2])
RMul(x, y) == R(x[1] * y[1], x[2] * y[2])
RDiv(x, y) == R(x[1] * y[2], x[2] * y[1])
RLt(x, y)  == x[1] * y[2] < y[1] * x[2]
RZero(x)   == x[1] = 0

-----------------------------------------------------------------------------
(* Bounds and input sets *)

NThreads == 2

Threads == 1 .. NThreads

\* brightness temperatures handed to compute_lst
Temps == {R(0, 1), R(1, 1), R(300, 1), R(65536, 1)}

\* digital numbers handed to check_t1x_range directly
DNs == {R(0, 1), R(1, 2), R(1, 1), R(65535, 1), R(131071, 2), R(65536, 1)}

Emissivities == {R(0, 1), R(1, 2)}

CWVs == {R(0, 1), R(3, 2), R(5, 2), R(16, 5), R(63, 10), R(7, 1)}

Entry(k, lo, hi, b, e) == [key |-> k, subrange |-> <<lo, hi>>, b |-> b, rmse |-> e]

\* overlapping subranges plus one entry for the whole range
TableOverlapping ==
    << Entry("Range_1", R(0, 1), R(5, 2),
             <<R(-2, 1), R(1, 1), R(1, 2), R(-1, 2), R(4, 1), R(3, 1), R(-8, 1), R(1, 8)>>,
             R(3, 8)),
       Entry("Range_2", R(2, 1), R(7, 2),
             <<R(-3, 1), R(2, 1), R(1, 4), R(1, 2), R(5, 1), R(2, 1), R(-6, 1), R(1, 4)>>,
             R(5, 8)),
       Entry("Range_3", R(3, 1), R(63, 10),
             <<R(-4, 1), R(3, 1), R(3, 4), R(-3, 2), R(6, 1), R(1, 1), R(-4, 1), R(3, 8)>>,
             R(3, 4)),
       Entry("Range_4", R(0, 1), R(63, 10),
             <<R(-5, 1), R(5, 1), R(3, 2), R(1, 4), R(7, 1), R(4, 1), R(-2, 1), R(1, 2)>>,
             R(7, 8)) >>

\* touching subranges; the second carries b0 = -1, b1 = 4, b2..b7 = 0
TableTouching ==
    << Entry("Range_1", R(0, 1), R(5, 2),
             <<R(-2, 1), R(1, 1), R(1, 2), R(-1, 2), R(4, 1), R(3, 1), R(-8, 1), R(1, 8)>>,
             R(3, 8)),
       Entry("Range_2", R(5, 2), R(63, 10),
             <<R(-1, 1), R(4, 1), R(0, 1), R(0, 1), R(0, 1), R(0, 1), R(0, 1), R(0, 1)>>,
             R(1, 2)) >>

Tables == {TableOverlapping, TableTouching}

-----------------------------------------------------------------------------
(* Module-level constants and the range check *)

T1X_MIN == 1
T1X_MAX == 65535

DUMMY_MAPCALC_STRING_T10 == "Input_T10"
DUMMY_MAPCALC_STRING_T11 == "Input_T11"

Return(v) == [kind |-> "return", value |-> v]
Raise(t, m) == [kind |-> "raise", type |-> t, msg |-> m]

\* the pieces of an exception message: literal text, or a value formatted into it
Lit(text) == [lit |-> text]
Val(v) == [val |-> v]

t1x_in_range_inclusive_bug(dn) == ~(~RLt(R(T1X_MIN, 1), dn) \/ ~RLt(dn, R(T1X_MAX, 1)))

\* the negation of the condition of the if at line 26
t1x_in_range(dn) == ~(RLt(dn, R(T1X_MIN, 1)) \/ RLt(R(T1X_MAX, 1), dn))

check_t1x_range(dn) ==
    IF ~t1x_in_range(dn)
    THEN Raise("ValueError",
               <<Lit("The input value for "), Lit("T10"),
                 Lit(" is out of the expected range [1,65535]")>>)
    ELSE Return(TRUE)


-----------------------------------------------------------------------------
(* SplitWindowLST.__init__ and the setters it calls *)

NoObject == <<>>

Has(s, a) == a \in DOMAIN s

\* attribute assignment(s): the new values win over the old ones
SetAttrs(s, new) == new @@ s

CITATION ==
    "Du, Chen; Ren, Huazhong; Qin, Qiming; Meng, Jinjie; Zhao, Shaohua. 2015. \"A Practical Split-Window Algorithm for Estimating Land Surface Temperature from Landsat 8 Data.\" Remote Sens. 7, no. 1: 647-665."

EQUATION ==
    "[b0 + (b1 + b2*((1-ae)/ae)) + b3*(de/ae) * ((t10 + t11)/2) + (b4 + b5*((1-ae)/ae) + b6*(de/ae^2))*((t10 - t11)/2) + b7*(t10 - t11)^2]"

MODEL_TEMPLATE ==
    "[{b0} + ({b1} + {b2}*((1-{ae})/{ae})) + {b3}*({de}/{ae}) * (({t10} + {t11})/2) + ({b4} + {b5}*((1-{ae})/{ae}) + {b6}*({de}/{ae}^2))*(({t10} - {t11})/2) + {b7}*({t10} - {t11})^2]\n"

\* lines 71-101: the attributes set before the subrange is resolved
init_inputs(emissivity_b10, emissivity_b11, column_water_vapour) ==
    [ citation            |-> CITATION,
      _equation           |-> EQUATION,
      _model              |-> MODEL_TEMPLATE,
      emissivity_t10      |-> emissivity_b10,
      emissivity_t11      |-> emissivity_b11,
      average_emissivity  |-> RMul(R(1, 2), RAdd(emissivity_b10, emissivity_b11)),
      delta_emissivity    |-> RSub(emissivity_b10, emissivity_b11),
      column_water_vapour |-> column_water_vapour ]

in_subrange_no_lower_bug(low, cwv, high) == RLt(cwv, high)

in_subrange_inclusive_bug(low, cwv, high) == ~RLt(cwv, low) /\ ~RLt(high, cwv)

\* the filter of the list comprehension at line 132
in_subrange(low, cwv, high) == RLt(low, cwv) /\ RLt(cwv, high)

\* the list the comprehension builds, in the table's key order
RECURSIVE matching_keys(_, _)
matching_keys(table, cwv) ==
    IF table = <<>> THEN <<>>
    ELSE LET x == Head(table)
             rest == matching_keys(Tail(table), cwv)
         IN  IF in_subrange(x.subrange[1], cwv, x.subrange[2])
             THEN <<x.key>> \o rest
             ELSE rest

\* the indices random.choice can draw for a sequence of that length
RandRange(seq) == IF seq = <<>> THEN {0} ELSE 0 .. (Len(seq) - 1)

random_choice_first_bug(seq, r) ==
    IF seq = <<>>
    THEN Raise("IndexError", <<Lit("Cannot choose from an empty sequence")>>)
    ELSE Return(seq[1])

\* random.choice(seq) with r the index its generator draws
random_choice(seq, r) ==
    IF seq = <<>>
    THEN Raise("IndexError", <<Lit("Cannot choose from an empty sequence")>>)
    ELSE Return(seq[r + 1])

\* COLUMN_WATER_VAPOUR[key]
Lookup(table, key) == CHOOSE x \in {table[i] : i \in DOMAIN table} : x.key = key

set_cwv_coefficients(table, s) ==
    LET b == Lookup(table, s["cwv_subrange"]).b
    IN  SetAttrs(s, [ b0 |-> b[1], b1 |-> b[2], b2 |-> b[3], b3 |-> b[4],
                      b4 |-> b[5], b5 |-> b[6], b6 |-> b[7], b7 |-> b[8],
                      cwv_coefficients |-> b ])

set_rmse(table, s) ==
    SetAttrs(s, [rmse |-> Lookup(table, s["cwv_subrange"]).rmse])

build_model(s) ==
    LET ae == s["average_emissivity"]
        de == s["delta_emissivity"]
        t10 == s["emissivity_t10"]
        t11 == s["emissivity_t11"]
    IN  SetAttrs(s, [model |->
          << "[", s["b0"], " + (", s["b1"], " + ", s["b2"], "*((1-", ae, ")/", ae,
             ")) + ", s["b3"], "*(", de, "/", ae, ") * ((", t10, " + ", t11,
             ")/2) + (", s["b4"], " + ", s["b5"], "*((1-", ae, ")/", ae, ") + ",
             s["b6"], "*(", de, "/", ae, "^2))*((", t10, " - ", t11, ")/2) + ",
             s["b7"], "*(", t10, " - ", t11, ")^2]\n" >>])

build_mapcalc(s) ==
    LET ae == s["average_emissivity"]
        de == s["delta_emissivity"]
        t10 == DUMMY_MAPCALC_STRING_T10
        t11 == DUMMY_MAPCALC_STRING_T11
    IN  SetAttrs(s, [mapcalc |->
          << s["b0"], " + (", s["b1"], " + (", s["b2"], ")*((1-", ae, ")/", ae,
             ")) + (", s["b3"], ")*(", de, "/", ae, ") * ((", t10, " + ", t11,
             ")/2) + (", s["b4"], " + (", s["b5"], ")*((1-", ae, ")/", ae, ") + (",
             s["b6"], ")*(", de, "/", ae, "^2))*((", t10, " - ", t11, ")/2) + (",
             s["b7"], ")*(", t10, " - ", t11, ")^2" >>])

\* lines 105-111, once random.choice has returned key
init_resolved(table, s, key) ==
    build_mapcalc(build_model(set_rmse(table,
        set_cwv_coefficients(table, SetAttrs(s, [cwv_subrange |-> key])))))

\* SplitWindowLST(emissivity_b10, emissivity_b11, column_water_vapour)
Construct(e10, e11, cwv, r) ==
    /\ phase = "none"
    /\ LET s0 == init_inputs(e10, e11, cwv)
           chosen == random_choice(matching_keys(COLUMN_WATER_VAPOUR, cwv), r)
       IN  /\ last' = [op |-> "__init__", args |-> <<e10, e11, cwv>>, rand |-> r,
                       outcome |-> IF chosen.kind = "raise" THEN chosen ELSE Return("None")]
           /\ IF chosen.kind = "raise"
              THEN self' = s0 /\ phase' = "failed"
              ELSE self' = init_resolved(COLUMN_WATER_VAPOUR, s0, chosen.value)
                   /\ phase' = "ready"
    /\ UNCHANGED <<COLUMN_WATER_VAPOUR, memo, threads>>

-----------------------------------------------------------------------------
(* SplitWindowLST.compute_lst *)

lst_sum_drop_b7_bug(s, t10, t11) ==
    LET avg == s["average_emissivity"]
        delta == s["delta_emissivity"]
        a == s["b0"]
        b == RAdd(s["b1"], RMul(s["b2"], RDiv(RSub(R(1, 1), avg), avg)))
        c == RMul(RMul(s["b3"], RDiv(delta, avg)), RDiv(RAdd(t10, t11), R(2, 1)))
        d1 == RAdd(RAdd(s["b4"], RMul(s["b5"], RDiv(RSub(R(1, 1), avg), avg))),
                   RMul(s["b6"], RDiv(delta, RMul(avg, avg))))
        d2 == RDiv(RSub(t10, t11), R(2, 1))
        d == RMul(d1, d2)
    IN  RAdd(RAdd(RAdd(a, b), c), d)

lst_sum_drift_bug(s, t10, t11) ==
    LET avg == s["average_emissivity"]
        delta == s["delta_emissivity"]
        a == IF Has(s, "lst") THEN s["lst"] ELSE s["b0"]
        b == RAdd(s["b1"], RMul(s["b2"], RDiv(RSub(R(1, 1), avg), avg)))
        c == RMul(RMul(s["b3"], RDiv(delta, avg)), RDiv(RAdd(t10, t11), R(2, 1)))
        d1 == RAdd(RAdd(s["b4"], RMul(s["b5"], RDiv(RSub(R(1, 1), avg), avg))),
                   RMul(s["b6"], RDiv(delta, RMul(avg, avg))))
        d2 == RDiv(RSub(t10, t11), R(2, 1))
        d == RMul(d1, d2)
        e == RMul(s["b7"], RMul(RSub(t10, t11), RSub(t10, t11)))
    IN  RAdd(RAdd(RAdd(RAdd(a, b), c), d), e)

\* lines 186-199: the addends and their sum (avg is not zero here)
lst_sum(s, t10, t11) ==
    LET avg == s["average_emissivity"]
        delta == s["delta_emissivity"]
        a == s["b0"]
        b == RAdd(s["b1"], RMul(s["b2"], RDiv(RSub(R(1, 1), avg), avg)))
        c == RMul(RMul(s["b3"], RDiv(delta, avg)), RDiv(RAdd(t10, t11), R(2, 1)))
        d1 == RAdd(RAdd(s["b4"], RMul(s["b5"], RDiv(RSub(R(1, 1), avg), avg))),
                   RMul(s["b6"], RDiv(delta, RMul(avg, avg))))
        d2 == RDiv(RSub(t10, t11), R(2, 1))
        d == RMul(d1, d2)
        e == RMul(s["b7"], RMul(RSub(t10, t11), RSub(t10, t11)))
    IN  RAdd(RAdd(RAdd(RAdd(a, b), c), d), e)

\* lines 182-199 up to the value about to be stored: the two range checks in
\* order, then the arithmetic, whose first division raises when avg is zero
lst_value(s, t10, t11) ==
    IF check_t1x_range(t10).kind = "raise" THEN check_t1x_range(t10)
    ELSE IF check_t1x_range(t11).kind = "raise" THEN check_t1x_range(t11)
    ELSE IF RZero(s["average_emissivity"])
         THEN Raise("ZeroDivisionError", <<Lit("float division by zero")>>)
    ELSE Return(lst_sum(s, t10, t11))

store_lst_clobber_bug(s, v) == SetAttrs(s, [lst |-> v, b0 |-> v])

\* self.lst = ...
store_lst(s, v) == SetAttrs(s, [lst |-> v])

Call(op, args, outcome) == [op |-> op, args |-> args, outcome |-> outcome]

NoCall == [op |-> "none"]

\* the observer of compute_lst calls: keeps the first call that returned and
\* notes a later returning call with other arguments
Remember(m, done) ==
    IF done.outcome.kind # "return" THEN m
    ELSE IF m.op = "none" THEN [call |-> done, op |-> done.op, between |-> FALSE]
    ELSE IF done.args # m.call.args THEN [m EXCEPT !.between = TRUE]
    ELSE m

\* one whole call of compute_lst by a single caller
compute_lst(t10, t11) ==
    /\ phase = "ready"
    /\ \A th \in Threads : threads[th].pc = "idle"
    /\ LET v == lst_value(self, t10, t11)
           s1 == IF v.kind = "return" THEN store_lst(self, v.value) ELSE self
           done == Call("compute_lst", <<t10, t11>>,
                        IF v.kind = "return" THEN Return(s1["lst"]) ELSE v)
       IN  /\ self' = s1
           /\ last' = done
           /\ memo' = Remember(memo, done)
    /\ UNCHANGED <<COLUMN_WATER_VAPOUR, phase, threads>>

\* a direct call of the module-level helper
CheckRange(dn) ==
    /\ last' = Call("check_t1x_range", <<dn>>, check_t1x_range(dn))
    /\ UNCHANGED <<COLUMN_WATER_VAPOUR, self, phase, memo, threads>>

-----------------------------------------------------------------------------
(* compute_lst called from several threads on the one instance: the store  *)
(* to self.lst (line 199) and the load of self.lst for the return value    *)
(* (line 200) are separate steps, and other threads may run between them.  *)

Idle == [pc |-> "idle"]

\* lines 182-199, right-hand side: reads only the arguments and attributes
\* that no call assigns
ThreadEnter(th, t10, t11) ==
    /\ phase = "ready"
    /\ threads[th].pc = "idle"
    /\ LET v == lst_value(self, t10, t11)
       IN  IF v.kind = "raise"
           THEN /\ last' = [Call("compute_lst", <<t10, t11>>, v) EXCEPT !.op = "compute_lst"]
                /\ UNCHANGED threads
           ELSE /\ threads' = [threads EXCEPT ![th] =
                                 [pc |-> "store", t10 |-> t10, t11 |-> t11, value |-> v.value]]
                /\ UNCHANGED last
    /\ UNCHANGED <<COLUMN_WATER_VAPOUR, self, phase, memo>>

\* line 199: self.lst = <value>
ThreadStore(th) ==
    /\ threads[th].pc = "store"
    /\ self' = store_lst(self, threads[th].value)
    /\ threads' = [threads EXCEPT ![th].pc = "load"]
    /\ UNCHANGED <<COLUMN_WATER_VAPOUR, phase, last, memo>>

\* line 200: return self.lst
ThreadReturn(th) ==
    /\ threads[th].pc = "load"
    /\ last' = Call("compute_lst", <<threads[th].t10, threads[th].t11>>, Return(self["lst"]))
    /\ threads' = [threads EXCEPT ![th] = Idle]
    /\ UNCHANGED <<COLUMN_WATER_VAPOUR, self, phase, memo>>

-----------------------------------------------------------------------------
(* Specifications *)

Init ==
    /\ COLUMN_WATER_VAPOUR \in Tables
    /\ self = NoObject
    /\ phase = "none"
    /\ last = NoCall
    /\ memo = NoCall
    /\ threads = [th \in Threads |-> Idle]

DoConstruct ==
    \E e10 \in Emissivities, e11 \in Emissivities, cwv \in CWVs :
        \E r \in RandRange(matching_keys(COLUMN_WATER_VAPOUR, cwv)) :
            Construct(e10, e11, cwv, r)

DoComputeLst == \E t10 \in Temps, t11 \in Temps : compute_lst(t10, t11)

DoCheckRange == \E dn \in DNs : CheckRange(dn)

DoThreadEnter == \E th \in Threads, t10 \in Temps, t11 \in Temps : ThreadEnter(th, t10, t11)

DoThreadStore == \E th \in Threads : ThreadStore(th)

DoThreadReturn == \E th \in Threads : ThreadReturn(th)

\* one caller at a time
Next == DoConstruct \/ DoComputeLst \/ DoCheckRange

Spec == Init /\ [][Next]_vars

\* several threads calling compute_lst on the one instance
NextConc == DoConstruct \/ DoThreadEnter \/ DoThreadStore \/ DoThreadReturn

SpecConc == Init /\ [][NextConc]_vars

-----------------------------------------------------------------------------
(* Helpers of the properties, written from the stated behaviour and not    *)
(* from the operators above                                                *)

Entries(table) == {table[i] : i \in DOMAIN table}

\* low < cwv < high, on cross-multiplied integers
StrictlyInside(x, cwv) ==
    /\ x.subrange[1][1] * cwv[2] < cwv[1] * x.subrange[1][2]
    /\ cwv[1] * x.subrange[2][2] < x.subrange[2][1] * cwv[2]

Matching(table, cwv) == {x \in Entries(table) : StrictlyInside(x, cwv)}

\* the matching keys in the table's order
MatchingInOrder(table, cwv) ==
    LET Inside(x) == StrictlyInside(x, cwv)
        hits == SelectSeq(table, Inside)
    IN  [i \in DOMAIN hits |-> hits[i].key]

\* 1 <= dn <= 65535
InDigitalRange(dn) == dn[2] <= dn[1] /\ dn[1] <= 65535 * dn[2]

Names(msg, operand) == \E i \in DOMAIN msg : "lit" \in DOMAIN msg[i] /\ msg[i].lit = operand

Carries(msg, v) == \E i \in DOMAIN msg : "val" \in DOMAIN msg[i] /\ msg[i].val = v

ResolvedAttrs ==
    {"cwv_subrange", "b0", "b1", "b2", "b3", "b4", "b5", "b6", "b7",
     "cwv_coefficients", "rmse", "model", "mapcalc"}

FixedAttrs ==
    {"emissivity_t10", "emissivity_t11", "average_emissivity", "delta_emissivity",
     "column_water_vapour", "cwv_subrange", "b0", "b1", "b2", "b3", "b4", "b5",
     "b6", "b7", "rmse", "model", "mapcalc"}

\* the table spans 0.0 to 6.3 and every subrange but the last-ending ones
\* touches or overlaps another one that reaches further
SpansDocumentedDomain(table) ==
    /\ \E x \in Entries(table) : x.subrange[1] = R(0, 1)
    /\ \E x \in Entries(table) : x.subrange[2] = R(63, 10)
    /\ \A x \in Entries(table) :
          /\ ~RLt(x.subrange[1], R(0, 1))
          /\ ~RLt(R(63, 10), x.subrange[2])
          /\ x.subrange[2] # R(63, 10) =>
                \E y \in Entries(table) :
                    /\ ~RLt(x.subrange[2], y.subrange[1])
                    /\ RLt(x.subrange[2], y.subrange[2])

\* the split-window equation of the class docstring (lines 47-51)
SplitWindowEquation(b, ae, de, t10, t11) ==
    LET one == R(1, 1)
        two == R(2, 1)
        term1 == RAdd(b[2], RMul(b[3], RDiv(RSub(one, ae), ae)))
        term2 == RMul(RMul(b[4], RDiv(de, ae)), RDiv(RAdd(t10, t11), two))
        term3 == RMul(RAdd(RAdd(b[5], RMul(b[6], RDiv(RSub(one, ae), ae))),
                           RMul(b[7], RDiv(de, RMul(ae, ae)))),
                      RDiv(RSub(t10, t11), two))
        term4 == RMul(b[8], RMul(RSub(t10, t11), RSub(t10, t11)))
    IN  RAdd(RAdd(RAdd(RAdd(b[1], term1), term2), term3), term4)

-----------------------------------------------------------------------------
(* Properties *)

\* C1: a compute_lst call with t10 or t11 outside [1, 65535] raises an
\* out-of-range error that names the operand that failed (T10 if t10 is out
\* of range, otherwise T11) and carries the offending value.
C1_ErrorNamesOffendingOperand ==
    (last.op = "compute_lst"
        /\ (~InDigitalRange(last.args[1]) \/ ~InDigitalRange(last.args[2])))
    => /\ last.outcome.kind = "raise"
       /\ last.outcome.type = "ValueError"
       /\ IF ~InDigitalRange(last.args[1])
          THEN /\ Names(last.outcome.msg, "T10")
               /\ ~Names(last.outcome.msg, "T11")
               /\ Carries(last.outcome.msg, last.args[1])
          ELSE /\ Names(last.outcome.msg, "T11")
               /\ ~Names(last.outcome.msg, "T10")
               /\ Carries(last.outcome.msg, last.args[2])

\* C2: when compute_lst calls on one instance interleave, every call that
\* returns returns the LST of its own (t10, t11) arguments.
C2_ReturnsOwnResult ==
    (last.op = "compute_lst" /\ last.outcome.kind = "return")
    => last.outcome.value =
          SplitWindowEquation(self["cwv_coefficients"], self["average_emissivity"],
                              self["delta_emissivity"], last.args[1], last.args[2])

\* C3: a column-water-vapour value strictly inside no subrange makes
\* construction raise: no subrange, coefficient, rmse or rendered string is
\* set, and no estimator results.
C3_NoMatchFailsConstruction ==
    (phase # "none" /\ Matching(COLUMN_WATER_VAPOUR, self["column_water_vapour"]) = {})
    => /\ phase = "failed"
       /\ \A a \in ResolvedAttrs : ~Has(self, a)
       /\ last.op = "__init__" =>
             (last.outcome.kind = "raise" /\ last.outcome.type = "IndexError")

C3_Witness ==
    /\ phase = "failed"
    /\ last.op = "__init__"
    /\ self["column_water_vapour"] = R(7, 1)
    /\ last.outcome.kind = "raise"

\* C4: a column-water-vapour value strictly inside exactly one subrange
\* always selects that subrange, whatever the random draw.
C4_UniqueMatchSelected ==
    (phase # "none"
        /\ Cardinality(Matching(COLUMN_WATER_VAPOUR, self["column_water_vapour"])) = 1)
    => /\ phase = "ready"
       /\ \A x \in Matching(COLUMN_WATER_VAPOUR, self["column_water_vapour"]) :
             self["cwv_subrange"] = x.key

C4_Witness ==
    /\ phase = "ready"
    /\ COLUMN_WATER_VAPOUR = TableTouching
    /\ self["column_water_vapour"] = R(16, 5)
    /\ self["cwv_subrange"] = "Range_2"

\* C5: with several subranges overlapping at cwv, the selected subrange is
\* one of the matching ones (low < cwv < high), and it is the matching
\* subrange at the index the random draw gives, so that each of the matching
\* subranges is selected by one of the draws.
C5_SelectsAmongMatches ==
    (phase # "none"
        /\ Cardinality(Matching(COLUMN_WATER_VAPOUR, self["column_water_vapour"])) >= 2)
    => /\ phase = "ready"
       /\ \E x \in Matching(COLUMN_WATER_VAPOUR, self["column_water_vapour"]) :
             self["cwv_subrange"] = x.key
       /\ last.op = "__init__" =>
             /\ last.rand \in 0 .. (Cardinality(Matching(COLUMN_WATER_VAPOUR,
                                                         self["column_water_vapour"])) - 1)
             /\ self["cwv_subrange"] =
                   MatchingInOrder(COLUMN_WATER_VAPOUR,
                                   self["column_water_vapour"])[last.rand + 1]

C5_Witness ==
    /\ phase = "ready"
    /\ last.op = "__init__"
    /\ Cardinality(Matching(COLUMN_WATER_VAPOUR, self["column_water_vapour"])) = 3
    /\ last.rand = 2
    /\ self["cwv_subrange"] = "Range_4"

\* C6: once the estimator is constructed, no step changes any of its
\* attributes other than the lst cache.
C6_OnlyLstChanges ==
    [][phase = "ready" =>
          \A a \in FixedAttrs : Has(self, a) /\ Has(self', a) /\ self'[a] = self[a]]_vars

C6_Witness ==
    /\ phase = "ready"
    /\ memo.op = "compute_lst"
    /\ memo.between
    /\ last.op = "compute_lst"
    /\ last.outcome.kind = "raise"
    /\ Has(self, "lst")
    /\ self["b0"] = Lookup(COLUMN_WATER_VAPOUR, self["cwv_subrange"]).b[1]

\* C7: a compute_lst call with the arguments of an earlier call that
\* returned returns the same value, whatever calls were made in between.
C7_SameArgsSameValue ==
    (last.op = "compute_lst" /\ memo.op = "compute_lst" /\ last.args = memo.call.args)
    => last.outcome = memo.call.outcome

C7_Witness ==
    /\ last.op = "compute_lst"
    /\ memo.op = "compute_lst"
    /\ memo.between
    /\ last.args = memo.call.args
    /\ last.outcome.kind = "return"
    /\ last.args[1] # last.args[2]

\* C8: for t10 and t11 in [1, 65535] (and a nonzero average emissivity, where
\* the equation is defined) compute_lst returns the split-window equation
\* with b0..b7 of the selected subrange, ae = 0.5*(e10+e11), de = e10-e11;
\* when b2..b7 are all zero that is b0 + b1.
C8_ReturnsEquation ==
    (last.op = "compute_lst"
        /\ InDigitalRange(last.args[1]) /\ InDigitalRange(last.args[2])
        /\ self["emissivity_t10"][1] + self["emissivity_t11"][1] # 0)
    => LET b == Lookup(COLUMN_WATER_VAPOUR, self["cwv_subrange"]).b
           ae == RMul(R(1, 2), RAdd(self["emissivity_t10"], self["emissivity_t11"]))
           de == RSub(self["emissivity_t10"], self["emissivity_t11"])
       IN  /\ last.outcome.kind = "return"
           /\ last.outcome.value = SplitWindowEquation(b, ae, de, last.args[1], last.args[2])
           /\ (\A i \in 3 .. 8 : b[i] = R(0, 1)) => last.outcome.value = RAdd(b[1], b[2])

C8_Witness ==
    /\ last.op = "compute_lst"
    /\ last.outcome.kind = "return"
    /\ last.args = <<R(300, 1), R(1, 1)>>
    /\ self["b7"] # R(0, 1)
    /\ self["delta_emissivity"] # R(0, 1)
    /\ self["lst"] = last.outcome.value

\* C9: check_t1x_range(dn) returns True for every dn with 1 <= dn <= 65535,
\* both endpoints included, and raises an out-of-range error for every other
\* dn; it never returns a false value.
C9_RangeCheck ==
    last.op = "check_t1x_range"
    => IF InDigitalRange(last.args[1])
       THEN last.outcome = Return(TRUE)
       ELSE last.outcome.kind = "raise" /\ last.outcome.type = "ValueError"

C9_Witness ==
    /\ last.op = "check_t1x_range"
    /\ last.args = <<R(65535, 1)>>
    /\ last.outcome = Return(TRUE)

\* C10: against a table spanning 0.0 to 6.3, construction with any cwv in
\* (0.0, 6.3] selects a subrange and does not raise.
C10_DocumentedDomainAccepted ==
    (phase # "none"
        /\ SpansDocumentedDomain(COLUMN_WATER_VAPOUR)
        /\ RLt(R(0, 1), self["column_water_vapour"])
        /\ ~RLt(R(63, 10), self["column_water_vapour"]))
    => phase = "ready" /\ Has(self, "cwv_subrange")

=============================================================================
